---- MODULE Spec2Model ----
(***************************************************************************)
(* Model of the crawl engine of playwright-webscraping (src/scraping.ts,   *)
(* src/utils.ts).  A JavaScript string is a sequence of one-character      *)
(* strings; a file-system path is the sequence of its segments after       *)
(* path.join's normalisation.                                              *)
(***************************************************************************)
EXTENDS Integers, Sequences, FiniteSets, TLC

\* ------------------------------------------------------------------------
\* Characters and generic string helpers
\* ------------------------------------------------------------------------

Digits == {"0", "1", "2", "3", "4", "5", "6", "7", "8", "9"}

DigitSeq == <<"0", "1", "2", "3", "4", "5", "6", "7", "8", "9">>

UpperSeq == <<"A", "B", "C", "D", "E", "F", "G", "H", "I", "J", "K", "L", "M",
              "N", "O", "P", "Q", "R", "S", "T", "U", "V", "W", "X", "Y", "Z">>

LowerSeq == <<"a", "b", "c", "d", "e", "f", "g", "h", "i", "j", "k", "l", "m",
              "n", "o", "p", "q", "r", "s", "t", "u", "v", "w", "x", "y", "z">>

AlphaNum ==
    {UpperSeq[i] : i \in DOMAIN UpperSeq} \cup {LowerSeq[i] : i \in DOMAIN LowerSeq} \cup Digits

HexDigits == Digits \cup {"a", "b", "c", "d", "e", "f", "A", "B", "C", "D", "E", "F"}

\* \s of a JavaScript regular expression and the characters String.trim strips
WhiteSpace == {" ", "\t", "\n", "\r"}

Quotes == {"\"", "'"}

UpperLetters == {UpperSeq[i] : i \in DOMAIN UpperSeq}

LowerOf == [c \in UpperLetters |-> LowerSeq[CHOOSE i \in DOMAIN UpperSeq : UpperSeq[i] = c]]

ToLower(c) == IF c \in UpperLetters THEN LowerOf[c] ELSE c

LowerStr(s) == [i \in 1..Len(s) |-> ToLower(s[i])]

SetMin(S) == CHOOSE x \in S : \A y \in S : x <= y

SetMax(S) == CHOOSE x \in S : \A y \in S : x >= y

\* the literal lit occurs in s at (1-based) position i
HasAt(s, i, lit) ==
    /\ i >= 1
    /\ i + Len(lit) - 1 <= Len(s)
    /\ \A k \in 1..Len(lit) : s[i + k - 1] = lit[k]

\* the same under the regular-expression flag i (lit is given in lower case)
HasAtCI(s, i, lit) ==
    /\ i >= 1
    /\ i + Len(lit) - 1 <= Len(s)
    /\ \A k \in 1..Len(lit) : ToLower(s[i + k - 1]) = lit[k]

StartsWith(s, lit) == HasAt(s, 1, lit)

EndsWith(s, lit) == HasAt(s, Len(s) - Len(lit) + 1, lit)

\* String.prototype.includes
Includes(s, lit) == \E i \in 1..(Len(s) + 1) : HasAt(s, i, lit)

\* String.prototype.split with a non-empty separator
RECURSIVE Split(_, _)
Split(s, sep) ==
    LET occ == {i \in 1..Len(s) : HasAt(s, i, sep)}
    IN  IF occ = {}
        THEN <<s>>
        ELSE LET i == SetMin(occ)
             IN  <<SubSeq(s, 1, i - 1)>> \o Split(SubSeq(s, i + Len(sep), Len(s)), sep)

\* Array.prototype.join
RECURSIVE Join(_, _)
Join(parts, sep) ==
    IF parts = <<>> THEN <<>>
    ELSE IF Len(parts) = 1 THEN parts[1]
    ELSE parts[1] \o sep \o Join(Tail(parts), sep)

\* String.prototype.trim
RECURSIVE Trim(_)
Trim(s) ==
    IF s = <<>> THEN s
    ELSE IF s[1] \in WhiteSpace THEN Trim(Tail(s))
    ELSE IF s[Len(s)] \in WhiteSpace THEN Trim(SubSeq(s, 1, Len(s) - 1))
    ELSE s

\* String(n) of a non-negative integer
RECURSIVE NumberToString(_)
NumberToString(n) ==
    IF n < 10 THEN <<DigitSeq[n + 1]>>
    ELSE NumberToString(n \div 10) \o <<DigitSeq[(n % 10) + 1]>>

Slash == <<"/">>

SchemeSep == <<":", "/", "/">>

\* ------------------------------------------------------------------------
\* src/utils.ts
\* ------------------------------------------------------------------------

EMPTY == <<>>

\* url.replace(PROTOCOL_REGEX, ""), PROTOCOL_REGEX = /^.+:\/\//  (greedy .+)
StripProtocol(url) ==
    LET occ == {i \in 2..Len(url) : HasAt(url, i, SchemeSep)}
    IN  IF occ = {} THEN url ELSE SubSeq(url, SetMax(occ) + 3, Len(url))

IndexName == <<"i", "n", "d", "e", "x">>

splitUrl(url) ==
    LET parts == Split(StripProtocol(url), Slash)
        last  == parts[Len(parts)]
    IN  [directoryPath |-> Join(SubSeq(parts, 1, Len(parts) - 1), Slash),
         filename      |-> IF last = EMPTY THEN IndexName ELSE last]

\* s.replaceAll(/\/\//g, "/"): every non-overlapping "//", left to right
RECURSIVE ReplaceAllDoubleSlash(_)
ReplaceAllDoubleSlash(s) ==
    IF s = <<>> THEN s
    ELSE IF HasAt(s, 1, <<"/", "/">>)
         THEN Slash \o ReplaceAllDoubleSlash(SubSeq(s, 3, Len(s)))
         ELSE <<s[1]>> \o ReplaceAllDoubleSlash(Tail(s))

unionUrlParts(protocol, domain, port, path) ==
    LET partial == domain \o <<":">> \o NumberToString(port)
                          \o (IF path # EMPTY THEN Slash \o path ELSE EMPTY)
    IN  protocol \o SchemeSep \o ReplaceAllDoubleSlash(partial)

unionUrl(baseUrl, path) ==
    LET separator == IF EndsWith(baseUrl, Slash) \/ (path # EMPTY /\ StartsWith(path, Slash))
                     THEN EMPTY ELSE Slash
    IN  baseUrl \o separator \o (IF path # EMPTY THEN path ELSE EMPTY)

\* url.replace(/:[0-9]+/, EMPTY): the first ":" followed by digits, with its digits
removePortFromUrl(url) ==
    LET occ == {i \in 1..(Len(url) - 1) : url[i] = ":" /\ url[i + 1] \in Digits}
    IN  IF occ = {} THEN url
        ELSE LET i == SetMin(occ)
                 j == SetMax({k \in (i + 1)..Len(url) :
                                 \A m \in (i + 1)..k : url[m] \in Digits})
             IN  SubSeq(url, 1, i - 1) \o SubSeq(url, j + 1, Len(url))

\* path.normalize of a relative path, as the list of its segments
RECURSIVE NormalizeSegments(_, _)
NormalizeSegments(segs, acc) ==
    IF segs = <<>> THEN acc
    ELSE LET h == Head(segs)
         IN  IF h = <<>> \/ h = <<".">>
             THEN NormalizeSegments(Tail(segs), acc)
             ELSE IF h = <<".", ".">> /\ acc # <<>> /\ acc[Len(acc)] # <<".", ".">>
                  THEN NormalizeSegments(Tail(segs), SubSeq(acc, 1, Len(acc) - 1))
                  ELSE NormalizeSegments(Tail(segs), Append(acc, h))

\* path.join(...args): the non-empty arguments joined by "/" and normalised
PathJoin(args) ==
    NormalizeSegments(Split(Join(SelectSeq(args, LAMBDA a : a # EMPTY), Slash), Slash), <<>>)

getFileFullPath(baseOutputDir, url) ==
    LET p == splitUrl(url)
    IN  PathJoin(<<baseOutputDir, p.directoryPath, p.filename>>)

\* the directory createDirectories hands to fs.mkdirSync
DirectoryFullPath(baseOutputDir, url) ==
    PathJoin(<<baseOutputDir, splitUrl(url).directoryPath>>)

\* s.replace(/(\/{2,})/g, '/')
RECURSIVE CollapseSlashes(_)
CollapseSlashes(s) ==
    IF Len(s) < 2 THEN s
    ELSE IF s[1] = "/" /\ s[2] = "/"
         THEN CollapseSlashes(Tail(s))
         ELSE <<s[1]>> \o CollapseSlashes(Tail(s))

removeDoubleBars(url) ==
    LET parts == Split(url, SchemeSep)
    IN  IF Len(parts) > 1
        THEN parts[1] \o SchemeSep \o CollapseSlashes(parts[2])
        ELSE CollapseSlashes(url)

\* ------------------------------------------------------------------------
\* src/scraping.ts: regular expressions
\* ------------------------------------------------------------------------

DEFAULT_HTTP_SUCCESS_STATUS_CODES == 200

\* the alternation (html|htm|xhtml|xml), in its order
HtmlAlternatives ==
    << <<"h", "t", "m", "l">>, <<"h", "t", "m">>, <<"x", "h", "t", "m", "l">>, <<"x", "m", "l">> >>

\* RegExp.prototype.test of /.+<sep>(html|htm|xhtml|xml)/gi on s with the
\* expression's lastIndex (0-based): the search starts at lastIndex, the greedy
\* .+ ends at the last <sep> an alternative follows, a match leaves lastIndex
\* after it and a failure resets lastIndex to 0.  (s holds no line terminator.)
TestAnyThenHtmlLike(s, lastIndex, sep) ==
    LET cand == {d \in (lastIndex + 2)..Len(s) :
                    /\ s[d] = sep
                    /\ \E k \in DOMAIN HtmlAlternatives : HasAtCI(s, d + 1, HtmlAlternatives[k])}
    IN  IF cand = {}
        THEN [matched |-> FALSE, lastIndex |-> 0]
        ELSE LET d == SetMax(cand)
                 k == SetMin({j \in DOMAIN HtmlAlternatives :
                                 HasAtCI(s, d + 1, HtmlAlternatives[j])})
             IN  [matched |-> TRUE, lastIndex |-> d + Len(HtmlAlternatives[k])]

\* HTML_FILENAME_REGEX = /.+\.(html|htm|xhtml|xml)/gi
HTML_FILENAME_REGEX(url, lastIndex) == TestAnyThenHtmlLike(url, lastIndex, ".")

\* HTML_CONTENT_TYPE_REGEX = /.+\/(html|htm|xhtml|xml)/gi
HTML_CONTENT_TYPE_REGEX(contentType, lastIndex) == TestAnyThenHtmlLike(contentType, lastIndex, "/")

AboutBlank == <<"/", "a", "b", "o", "u", "t", ":", "b", "l", "a", "n", "k">>

\* IGNORE_URL_REGEX = /.+\/about:blank$/gi, tested with its lastIndex
IGNORE_URL_REGEX(link, lastIndex) ==
    IF /\ HasAtCI(link, Len(link) - Len(AboutBlank) + 1, AboutBlank)
       /\ lastIndex + 1 <= Len(link) - Len(AboutBlank)
    THEN [matched |-> TRUE, lastIndex |-> Len(link)]
    ELSE [matched |-> FALSE, lastIndex |-> 0]

\* /^https?:\/\//i.test(link)
HasHttpScheme(link) ==
    \/ HasAtCI(link, 1, <<"h", "t", "t", "p", ":", "/", "/">>)
    \/ HasAtCI(link, 1, <<"h", "t", "t", "p", "s", ":", "/", "/">>)

\* ------------------------------------------------------------------------
\* src/scraping.ts: extractLinks
\* ------------------------------------------------------------------------

\* the first position at or after i that holds no white space
RECURSIVE SkipSpace(_, _)
SkipSpace(h, i) == IF i <= Len(h) /\ h[i] \in WhiteSpace THEN SkipSpace(h, i + 1) ELSE i

\* the first position at or after i that holds a quote, or Len(h) + 1
RECURSIVE SkipToQuote(_, _)
SkipToQuote(h, i) == IF i <= Len(h) /\ h[i] \notin Quotes THEN SkipToQuote(h, i + 1) ELSE i

\* /(href|src)\s*=\s*["']([^"']+)["']/gi anchored at position i
MatchAttributeAt(h, i) ==
    LET n  == IF HasAtCI(h, i, <<"h", "r", "e", "f">>) THEN 4
              ELSE IF HasAtCI(h, i, <<"s", "r", "c">>) THEN 3 ELSE 0
        e  == SkipSpace(h, i + n)
        q  == SkipSpace(h, e + 1)
        v  == q + 1
        z  == SkipToQuote(h, v)
    IN  IF /\ n > 0
           /\ e <= Len(h) /\ h[e] = "="
           /\ q <= Len(h) /\ h[q] \in Quotes
           /\ z > v
           /\ z <= Len(h)
        THEN [ok |-> TRUE, value |-> SubSeq(h, v, z - 1), next |-> z + 1]
        ELSE [ok |-> FALSE, value |-> EMPTY, next |-> i + 1]

RECURSIVE ExtractFrom(_, _)
ExtractFrom(h, i) ==
    IF i > Len(h) THEN <<>>
    ELSE LET m == MatchAttributeAt(h, i)
         IN  IF m.ok THEN <<m.value>> \o ExtractFrom(h, m.next)
             ELSE ExtractFrom(h, m.next)

extractLinks(html) == ExtractFrom(html, 1)

\* ------------------------------------------------------------------------
\* src/scraping.ts: removeExtensionOrFragment
\* ------------------------------------------------------------------------

\* r matches .+\.[a-zA-Z0-9]{2,5}$
EndsWithExtension(r) ==
    \E j \in 2..Len(r) :
        /\ r[j] = "."
        /\ (Len(r) - j) \in 2..5
        /\ \A m \in (j + 1)..Len(r) : r[m] \in AlphaNum

\* r matches #[^\/]*$
IsFragment(r) == r # EMPTY /\ r[1] = "#" /\ \A m \in 2..Len(r) : r[m] # "/"

\* /.+\/(.+\.[a-zA-Z0-9]{2,5}|#[^\/]*)$/.test(url)
EndsWithFilenameOrFragment(url) ==
    \E q \in 2..Len(url) :
        /\ url[q] = "/"
        /\ LET r == SubSeq(url, q + 1, Len(url))
           IN  EndsWithExtension(r) \/ IsFragment(r)

\* url.replace(/\/[^\/]*\/?$/, '/'): the leftmost "/" that only non-slash
\* characters and an optional final "/" follow
ReplaceLastSegment(url) ==
    LET cand == {q \in 1..Len(url) :
                    /\ url[q] = "/"
                    /\ \/ \A m \in (q + 1)..Len(url) : url[m] # "/"
                       \/ /\ q < Len(url)
                          /\ url[Len(url)] = "/"
                          /\ \A m \in (q + 1)..(Len(url) - 1) : url[m] # "/"}
    IN  IF cand = {} THEN url ELSE SubSeq(url, 1, SetMin(cand) - 1) \o Slash

removeExtensionOrFragment(url) ==
    IF Len(url) >= 2 /\ EndsWith(url, Slash)
    THEN url
    ELSE IF EndsWithFilenameOrFragment(url) THEN ReplaceLastSegment(url) ELSE url

\* ------------------------------------------------------------------------
\* Library calls of src/scraping.ts: encodeUrl, new URL, decodeURIComponent
\* ------------------------------------------------------------------------

\* the characters encodeUrl escapes (outside its allowed set), with their escapes
EscapedChars == <<" ", "\"", "<", ">", "{", "}", "\t", "\n", "\r">>

EscapeCodes == << <<"%", "2", "0">>, <<"%", "2", "2">>, <<"%", "3", "C">>, <<"%", "3", "E">>, <<"%", "7", "B">>, <<"%", "7", "D">>,
                  <<"%", "0", "9">>, <<"%", "0", "A">>, <<"%", "0", "D">> >>

\* encodeUrl(url): escapes the characters a URL may not hold and every "%" that
\* does not start an escape sequence; existing escape sequences are kept
RECURSIVE encodeUrl(_)
encodeUrl(url) ==
    IF url = <<>> THEN url
    ELSE LET c == url[1]
         IN  IF \E k \in DOMAIN EscapedChars : EscapedChars[k] = c
             THEN EscapeCodes[CHOOSE k \in DOMAIN EscapedChars : EscapedChars[k] = c]
                      \o encodeUrl(Tail(url))
             ELSE IF c = "%" /\ ~(Len(url) >= 3 /\ url[2] \in HexDigits /\ url[3] \in HexDigits)
                  THEN <<"%", "2", "5">> \o encodeUrl(Tail(url))
                  ELSE <<c>> \o encodeUrl(Tail(url))

\* the escape sequences decodeURIComponent is given here, in lower case, and
\* the characters they stand for
DecodableCodes == << <<"%", "2", "0">>, <<"%", "2", "2">>, <<"%", "2", "5">>, <<"%", "2", "e">>, <<"%", "2", "f">>, <<"%", "3", "a">>, <<"%", "3", "c">>, <<"%", "3", "e">> >>

DecodedChars == <<" ", "\"", "%", ".", "/", ":", "<", ">">>

\* decodeURIComponent(s): [ok |-> FALSE] stands for the URIError it throws on a
\* "%" that starts no well-formed escape sequence
RECURSIVE decodeURIComponent(_)
decodeURIComponent(s) ==
    IF s = <<>> THEN [ok |-> TRUE, value |-> EMPTY]
    ELSE IF s[1] # "%"
         THEN LET rest == decodeURIComponent(Tail(s))
              IN  [ok |-> rest.ok, value |-> <<s[1]>> \o rest.value]
         ELSE IF \E k \in DOMAIN DecodableCodes : HasAtCI(s, 1, DecodableCodes[k])
              THEN LET k    == CHOOSE j \in DOMAIN DecodableCodes : HasAtCI(s, 1, DecodableCodes[j])
                       rest == decodeURIComponent(SubSeq(s, 4, Len(s)))
                   IN  [ok |-> rest.ok, value |-> <<DecodedChars[k]>> \o rest.value]
              ELSE [ok |-> FALSE, value |-> EMPTY]

\* code points a host may not hold
ForbiddenHostChars == {" ", "#", "/", ":", "<", ">", "?", "@", "[", "\\", "]", "^", "|", "%"}

\* the first position at or after i that holds neither "/" nor "\"
RECURSIVE SkipSlashes(_, _)
SkipSlashes(s, i) == IF i <= Len(s) /\ s[i] \in {"/", "\\"} THEN SkipSlashes(s, i + 1) ELSE i

\* new URL(link).hostname for an http(s) link: [ok |-> FALSE] stands for the
\* TypeError the constructor throws.  The authority runs to the first of
\* "/", "\", "?", "#"; user information ends at its last "@"; the host ends at
\* the first ":" and the port after it is a number below 65536; the host name
\* is lower-cased.
ParseHostname(link) ==
    LET afterScheme == IF HasAtCI(link, 1, <<"h", "t", "t", "p", ":", "/", "/">>) THEN 8
                       ELSE IF HasAtCI(link, 1, <<"h", "t", "t", "p", "s", ":", "/", "/">>) THEN 9 ELSE 0
        start   == SkipSlashes(link, afterScheme)
        ends    == {i \in start..Len(link) : link[i] \in {"/", "\\", "?", "#"}}
        stop    == IF ends = {} THEN Len(link) + 1 ELSE SetMin(ends)
        auth    == SubSeq(link, start, stop - 1)
        ats     == {i \in 1..Len(auth) : auth[i] = "@"}
        hostport == IF ats = {} THEN auth ELSE SubSeq(auth, SetMax(ats) + 1, Len(auth))
        colons  == {i \in 1..Len(hostport) : hostport[i] = ":"}
        host    == IF colons = {} THEN hostport ELSE SubSeq(hostport, 1, SetMin(colons) - 1)
        port    == IF colons = {} THEN EMPTY
                   ELSE SubSeq(hostport, SetMin(colons) + 1, Len(hostport))
    IN  IF /\ afterScheme > 0
           /\ host # EMPTY
           /\ \A i \in 1..Len(host) : host[i] \notin ForbiddenHostChars
           /\ \A i \in 1..Len(port) : port[i] \in Digits
           /\ Len(port) <= 5
        THEN [ok |-> TRUE, hostname |-> LowerStr(host)]
        ELSE [ok |-> FALSE, hostname |-> EMPTY]

\* ------------------------------------------------------------------------
\* src/scraping.ts: filterSameDomainLinks
\* ------------------------------------------------------------------------

\* the second .map: an absolute http(s) link is kept, any other is joined to
\* the page's directory
ResolveLink(currentUrl, link) ==
    IF HasHttpScheme(link) THEN link
    ELSE encodeUrl(removeDoubleBars(unionUrl(removeExtensionOrFragment(currentUrl), link)))

\* .filter((link) => !IGNORE_URL_REGEX.test(link)) over the list in order,
\* the expression's lastIndex carried from one test to the next
RECURSIVE FilterIgnored(_, _)
FilterIgnored(links, lastIndex) ==
    IF links = <<>> THEN [links |-> <<>>, lastIndex |-> lastIndex]
    ELSE LET t    == IGNORE_URL_REGEX(Head(links), lastIndex)
             rest == FilterIgnored(Tail(links), t.lastIndex)
         IN  [links     |-> IF t.matched THEN rest.links ELSE <<Head(links)>> \o rest.links,
              lastIndex |-> rest.lastIndex]

\* faulty variant: every host is admitted
HostAdmittedAlways(hostname, base) == TRUE

\* url.hostname.includes(params.domain.base)
HostAdmitted(hostname, base) == Includes(hostname, base)

\* the last .filter: new URL(link) parses and its host name holds the base domain
\* faulty variant: the base domain is looked for in the link as written,
\* without new URL
SameDomainUnparsed(link, base) == Includes(LowerStr(link), base)

\* try { new URL(link); hostname test } catch { return false; }
SameDomain(link, base) ==
    LET u == ParseHostname(link)
    IN  u.ok /\ HostAdmitted(u.hostname, base)

filterSameDomainLinks(currentUrl, links, base, lastIndex) ==
    LET trimmed  == [i \in 1..Len(links) |-> Trim(links[i])]
        resolved == [i \in 1..Len(links) |-> ResolveLink(currentUrl, trimmed[i])]
        kept     == FilterIgnored(resolved, lastIndex)
    IN  [links     |-> SelectSeq(kept.links, LAMBDA l : SameDomain(l, base)),
         lastIndex |-> kept.lastIndex]

\* ------------------------------------------------------------------------
\* Bounds of the model
\* ------------------------------------------------------------------------

\* crawl is run at most this many times, one run after the other
MaxRuns == 2

\* at most this many URLs of the stub server fail at the network level
MaxDown == 1

\* ------------------------------------------------------------------------
\* CrawlParams of the runs (src/scraping.ts, CrawlParams; the entry point's
\* CRAWL_CONFIG)
\* ------------------------------------------------------------------------

DEFAULT_PORT == 8080

Protocol == <<"h", "t", "t", "p">>

DomainBase == <<"b", ".", "i", "o">>

DomainStart == <<"b", ".", "i", "o">>

BaseOutputDir == <<".", "/", "o", "u", "t">>

\* params.domain.startPath of the three sites crawled
StartPaths == { <<"/">>, <<"i", ".", "h", "t", "m", "l">>, <<"g", "/", "k", ".", "h", "t", "m", "l">> }

\* ------------------------------------------------------------------------
\* The stub server: the browser/network capability's answer to a URL
\* ------------------------------------------------------------------------

TextHtml == <<"t", "e", "x", "t", "/", "h", "t", "m", "l">>

ImagePng == <<"i", "m", "a", "g", "e", "/", "p", "n", "g">>

Page(status, contentType, body, text) ==
    [status |-> status, contentType |-> contentType, body |-> body, text |-> text]

\* first site, started at "/"
UrlRoot == <<"h", "t", "t", "p", ":", "/", "/", "b", ".", "i", "o", ":", "8", "0", "8", "0", "/">>
UrlA    == <<"h", "t", "t", "p", ":", "/", "/", "b", ".", "i", "o", ":", "8", "0", "8", "0", "/", "a", ".", "h", "t", "m", "l">>
UrlPng  == <<"h", "t", "t", "p", ":", "/", "/", "b", ".", "i", "o", ":", "8", "0", "8", "0", "/", "p", ".", "p", "n", "g">>
UrlSub  == <<"h", "t", "t", "p", ":", "/", "/", "s", ".", "b", ".", "i", "o", "/", "c">>
UrlNf   == <<"h", "t", "t", "p", ":", "/", "/", "b", ".", "i", "o", ":", "8", "0", "8", "0", "/", "n", "f">>
UrlD    == <<"h", "t", "t", "p", ":", "/", "/", "b", ".", "i", "o", ":", "8", "0", "8", "0", "/", "d">>
UrlDE   == <<"h", "t", "t", "p", ":", "/", "/", "b", ".", "i", "o", ":", "8", "0", "8", "0", "/", "d", "/", "e", ".", "h", "t", "m", "l">>
UrlOther == <<"h", "t", "t", "p", ":", "/", "/", "o", ".", "i", "o", "/", "x">>

\* second site, started at "i.html"
UrlI == <<"h", "t", "t", "p", ":", "/", "/", "b", ".", "i", "o", ":", "8", "0", "8", "0", "/", "i", ".", "h", "t", "m", "l">>
UrlP == <<"h", "t", "t", "p", ":", "/", "/", "b", ".", "i", "o", ":", "8", "0", "8", "0", "/", "p", ".", "h", "t", "m", "l">>
UrlR == <<"h", "t", "t", "p", ":", "/", "/", "b", ".", "i", "o", ":", "8", "0", "8", "0", "/", "r", ".", "h", "t", "m", "l">>
UrlT == <<"h", "t", "t", "p", ":", "/", "/", "b", ".", "i", "o", ":", "8", "0", "8", "0", "/", "t", ".", "h", "t", "m", "l">>
UrlV == <<"h", "t", "t", "p", ":", "/", "/", "b", ".", "i", "o", ":", "8", "0", "8", "0", "/", "v", ".", "h", "t", "m", "l">>
UrlU == <<"h", "t", "t", "p", ":", "/", "/", "b", ".", "i", "o", ":", "8", "0", "8", "0", "/", "u", ".", "h", "t", "m", "l">>

\* third site, started at "g/k.html"
UrlK  == <<"h", "t", "t", "p", ":", "/", "/", "b", ".", "i", "o", ":", "8", "0", "8", "0", "/", "g", "/", "k", ".", "h", "t", "m", "l">>
UrlW  == <<"h", "t", "t", "p", ":", "/", "/", "b", ".", "i", "o", ":", "8", "0", "8", "0", "/", "g", "/", "w">>
UrlW2 == <<"h", "t", "t", "p", ":", "/", "/", "b", ".", "i", "o", "/", "g", "/", "w">>
UrlX  == <<"h", "t", "t", "p", ":", "/", "/", "b", ".", "i", "o", ":", "8", "0", "8", "0", "/", "g", "/", ".", ".", "%", "2", "F", ".", ".", "%", "2", "F", ".", ".", "%", "2", "F", "x">>
UrlY  == <<"h", "t", "t", "p", ":", "/", "/", "b", ".", "i", "o", ":", "8", "0", "8", "0", "/", "/", "y">>
UrlBlank == <<"h", "t", "t", "p", ":", "/", "/", "b", ".", "i", "o", ":", "8", "0", "8", "0", "/", "g", "/", "a", "b", "o", "u", "t", ":", "b", "l", "a", "n", "k">>

TextRoot == <<"h", "r", "e", "f", "=", "\"", "a", ".", "h", "t", "m", "l", "\"", " ", "s", "r", "c", "=", "'", "p", ".", "p", "n", "g", "'", " ", "h", "r", "e", "f", "=", "\"", "h", "t", "t", "p", ":", "/", "/", "o", ".", "i", "o", "/", "x", "\"", " ", "H", "R", "E", "F", " ", "=", " ", "\"", "h", "t", "t", "p", ":", "/", "/", "s", ".", "b", ".", "i", "o", "/", "c", "\"", " ", "h", "r", "e", "f", "=", "\"", "a", ".", "h", "t", "m", "l", "\"", " ", "h", "r", "e", "f", "=", "\"", "n", "f", "\"">>

TextA == <<"h", "r", "e", "f", "=", "\"", "d", "\"", " ", "h", "r", "e", "f", "=", "\"", "h", "t", "t", "p", ":", "/", "/", "b", ".", "i", "o", ":", "x", "/", "m", "\"", " ", "h", "r", "e", "f", "=", "\"", "d", "/", "e", ".", "h", "t", "m", "l", "\"">>

TextPng == <<"P", "N", "G", " ", "s", "r", "c", "=", "\"", "z", "\"">>

TextSub == <<"h", "r", "e", "f", "=", "\"", "h", "t", "t", "p", ":", "/", "/", "b", ".", "i", "o", ":", "8", "0", "8", "0", "/", "\"">>

TextNf == <<"h", "r", "e", "f", "=", "\"", "q", "\"">>

TextI == <<"h", "r", "e", "f", "=", "\"", "p", ".", "h", "t", "m", "l", "\"", " ", "h", "r", "e", "f", "=", "\"", "r", ".", "h", "t", "m", "l", "\"", " ", "h", "r", "e", "f", "=", "\"", "t", ".", "h", "t", "m", "l", "\"", " ", "h", "r", "e", "f", "=", "\"", "v", ".", "h", "t", "m", "l", "\"">>

TextT == <<"h", "r", "e", "f", "=", "\"", "u", ".", "h", "t", "m", "l", "\"">>

TextK == <<"h", "r", "e", "f", "=", "\"", "/", "w", "\"", " ", "h", "r", "e", "f", "=", "\"", "h", "t", "t", "p", ":", "/", "/", "b", ".", "i", "o", "/", "g", "/", "w", "\"", " ", "h", "r", "e", "f", "=", "\"", "a", "b", "o", "u", "t", ":", "b", "l", "a", "n", "k", "\"", " ", "h", "r", "e", "f", "=", "\"", "a", "b", "o", "u", "t", ":", "b", "l", "a", "n", "k", "\"", " ", "h", "r", "e", "f", "=", "\"", "h", "t", "t", "p", ":", "/", "/", "b", ".", "i", "o", ":", "8", "0", "8", "0", "/", "/", "y", "\"", " ", "h", "r", "e", "f", "=", "\"", ".", ".", "%", "2", "F", ".", ".", "%", "2", "F", ".", ".", "%", "2", "F", "x", "\"">>

Serve(url) ==
    CASE url = UrlRoot -> Page(200, TextHtml, <<1>>, TextRoot)
      [] url = UrlA    -> Page(200, TextHtml, <<2>>, TextA)
      [] url = UrlPng  -> Page(200, ImagePng, <<3>>, TextPng)
      [] url = UrlSub  -> Page(200, TextHtml, <<4>>, TextSub)
      [] url = UrlNf   -> Page(404, TextHtml, <<5>>, TextNf)
      [] url = UrlD    -> Page(200, TextHtml, <<6>>, EMPTY)
      [] url = UrlDE   -> Page(200, TextHtml, <<7>>, EMPTY)
      [] url = UrlOther -> Page(200, TextHtml, <<8>>, EMPTY)
      [] url = UrlI    -> Page(200, TextHtml, <<11>>, TextI)
      [] url = UrlP    -> Page(200, TextHtml, <<12>>, EMPTY)
      [] url = UrlR    -> Page(200, TextHtml, <<13>>, EMPTY)
      [] url = UrlT    -> Page(200, TextHtml, <<14>>, TextT)
      [] url = UrlV    -> Page(200, TextHtml, <<15>>, EMPTY)
      [] url = UrlU    -> Page(200, TextHtml, <<16>>, EMPTY)
      [] url = UrlK    -> Page(200, TextHtml, <<21>>, TextK)
      [] url = UrlW    -> Page(200, TextHtml, <<22>>, EMPTY)
      [] url = UrlW2   -> Page(200, TextHtml, <<23>>, EMPTY)
      [] url = UrlX    -> Page(200, TextHtml, <<24>>, EMPTY)
      [] OTHER         -> Page(404, TextHtml, <<9>>, EMPTY)

\* the URLs whose navigation may fail (network error, timeout, null response)
FlakyUrls == {UrlA, UrlPng, UrlT}

DownChoices == {s \in SUBSET FlakyUrls : Cardinality(s) <= MaxDown}

\* ------------------------------------------------------------------------
\* The file system capability: files (path -> bytes) and directories
\* ------------------------------------------------------------------------

NoFiles == [p \in {} |-> <<>>]

Prefixes(path) == {SubSeq(path, 1, n) : n \in 0..Len(path)}

Parent(path) == SubSeq(path, 1, Len(path) - 1)

PutFile(fs, path, bytes) ==
    [p \in (DOMAIN fs) \cup {path} |-> IF p = path THEN bytes ELSE fs[p]]

\* fs.mkdirSync(path, {recursive: true}) / fs.mkdir: fails when a component
\* of the path is a file
MkdirFails(fs, path) == \E p \in Prefixes(path) : p \in DOMAIN fs

\* fs.writeFileSync(path, bytes): fails on a directory and under a missing
\* or non-directory parent
WriteFails(fs, ds, path) == path \in ds \/ path = <<>> \/ Parent(path) \notin ds

\* fs.existsSync(path)
Exists(fs, ds, path) == path \in DOMAIN fs \/ path \in ds

OutputRoot == PathJoin(<<BaseOutputDir>>)

\* the content of a file left by an earlier archive
StaleBytes == <<0>>

\* the output trees a first run may find: nothing, an archive holding a stale
\* copy of one page, and a file where the output directory should be
InitialTrees ==
    { [files |-> NoFiles, dirs |-> {<<>>}],
      [files |-> PutFile(NoFiles, getFileFullPath(BaseOutputDir, removePortFromUrl(UrlA)), StaleBytes),
       dirs  |-> Prefixes(DirectoryFullPath(BaseOutputDir, removePortFromUrl(UrlA)))],
      [files |-> PutFile(NoFiles, OutputRoot, StaleBytes), dirs |-> {<<>>}] }

\* ------------------------------------------------------------------------
\* src/scraping.ts: request, savePageContent, enqueueNewLinks
\* ------------------------------------------------------------------------

\* result of request() before any response is read (status 0, binary false)
NoResult(url) ==
    [status |-> 0, contentType |-> EMPTY, body |-> <<>>, text |-> EMPTY,
     binary |-> FALSE, url |-> url]

\* request(page, url, params): goto, the two regular-expression tests (the
\* content type is tested only when the file name test fails), the raw fetch
\* of a binary resource, and the response read into the result.  isDown: the
\* navigation throws or resolves to null.
request(url, isDown, fnLastIndex, ctLastIndex) ==
    IF isDown
    THEN [threw |-> TRUE, response |-> NoResult(url),
          fnLastIndex |-> fnLastIndex, ctLastIndex |-> ctLastIndex]
    ELSE LET nav    == Serve(url)
             fn     == HTML_FILENAME_REGEX(url, fnLastIndex)
             ct     == HTML_CONTENT_TYPE_REGEX(nav.contentType, ctLastIndex)
             binary == ~fn.matched /\ ~ct.matched
             final  == IF binary THEN Serve(url) ELSE nav
         IN  [threw |-> FALSE,
              response |-> [status |-> final.status, contentType |-> nav.contentType,
                            body |-> final.body, text |-> final.text,
                            binary |-> binary, url |-> url],
              fnLastIndex |-> fn.lastIndex,
              ctLastIndex |-> IF fn.matched THEN ctLastIndex ELSE ct.lastIndex]

\* page.url() after a navigation to url that did not throw (the stub server
\* redirects nothing and its URLs are in the browser's serialised form)
PageUrlAfterGoto(url) == url

\* new Uint8Array(content) of a Buffer
Payload(content) == content

\* faulty variant: an existing file is never skipped
ShouldSkipNever(overwrite, exists) == FALSE

\* !overrides && await existsFile(baseOutputDir, url)
ShouldSkip(overwrite, exists) == ~overwrite /\ exists

\* savePageContent(content, baseOutputDir, url, overrides) on the file system
\* (fs, ds): createDirectories, the skip of an existing file, saveFile
savePageContent(content, baseOutputDir, url, overrides, fs, ds) ==
    LET dir  == DirectoryFullPath(baseOutputDir, url)
        file == getFileFullPath(baseOutputDir, url)
        ds1  == ds \cup Prefixes(dir)
    IN  IF MkdirFails(fs, dir)
        THEN [outcome |-> "persistThrew", files |-> fs, dirs |-> ds, path |-> file]
        ELSE IF ShouldSkip(overrides, Exists(fs, ds1, file))
        THEN [outcome |-> "skipped", files |-> fs, dirs |-> ds1, path |-> file]
        ELSE IF WriteFails(fs, ds1, file)
        THEN [outcome |-> "persistThrew", files |-> fs, dirs |-> ds1, path |-> file]
        ELSE [outcome |-> "wrote", files |-> PutFile(fs, file, Payload(content)),
              dirs |-> ds1, path |-> file]

\* faulty variant: the loop over the links stops after the first one
enqueueFirstLinkOnly(links, visitedSet, q) ==
    IF links = <<>> \/ Head(links) \in visitedSet THEN q ELSE Append(q, Head(links))

\* faulty variant: queue.unshift in place of queue.push
enqueueAtFront(links, visitedSet, q) ==
    SelectSeq(links, LAMBDA l : l \notin visitedSet) \o q

\* faulty variant: the visited set is not consulted before queue.push
enqueueEveryLink(links, visitedSet, q) == q \o links

\* for (const link of links) if (!visited.has(link)) queue.push(link)
enqueueNewLinks(links, visitedSet, q) ==
    q \o SelectSeq(links, LAMBDA l : l \notin visitedSet)

\* ------------------------------------------------------------------------
\* src/scraping.ts: crawl, as a state machine
\* ------------------------------------------------------------------------

VARIABLES
    pc,              \* position in crawl
    run,             \* number of the current run of crawl
    startPath,       \* params.domain.startPath
    overrides,       \* params.overrides
    down,            \* URLs whose navigation fails (fixed: the server is deterministic)
    browser,         \* "none", "open" or "closed"
    outcome,         \* "running", "returned" or "rejected" (crawl's promise)
    pendingError,    \* an exception is propagating through the finally block
    queue,           \* the work queue
    visited,         \* the visited set
    currentUrl,      \* the URL being processed
    pageUrl,         \* page.url()
    result,          \* result.response of the last request
    fnLastIndex,     \* HTML_FILENAME_REGEX.lastIndex
    ctLastIndex,     \* HTML_CONTENT_TYPE_REGEX.lastIndex
    ignoreLastIndex, \* IGNORE_URL_REGEX.lastIndex
    files,           \* the file system: path -> bytes
    dirs,            \* the file system: directories
    treeAtStart,     \* history: the file system when the current run started
    trace            \* history: what the current run did, in order

vars == <<pc, run, startPath, overrides, down, browser, outcome, pendingError,
          queue, visited, currentUrl, pageUrl, result, fnLastIndex, ctLastIndex,
          ignoreLastIndex, files, dirs, treeAtStart, trace>>

config == <<startPath, overrides, down>>

regexes == <<fnLastIndex, ctLastIndex, ignoreLastIndex>>

tree == <<files, dirs>>

Event(ev, url, data) == [ev |-> ev, url |-> url, data |-> data]

Log(ev, url, data) == trace' = Append(trace, Event(ev, url, data))

Seed == unionUrlParts(Protocol, DomainStart, DEFAULT_PORT, startPath)

AboutBlankUrl == <<"a", "b", "o", "u", "t", ":", "b", "l", "a", "n", "k">>

Init ==
    /\ pc = "start"
    /\ run = 1
    /\ startPath \in StartPaths
    /\ overrides \in BOOLEAN
    /\ down \in DownChoices
    /\ browser = "none"
    /\ outcome = "running"
    /\ pendingError = FALSE
    /\ queue = <<>>
    /\ visited = {}
    /\ currentUrl = EMPTY
    /\ pageUrl = AboutBlankUrl
    /\ result = NoResult(EMPTY)
    /\ fnLastIndex = 0
    /\ ctLastIndex = 0
    /\ ignoreLastIndex = 0
    /\ \E t \in InitialTrees : files = t.files /\ dirs = t.dirs /\ treeAtStart = t
    /\ trace = <<>>

\* initializeBrowser: chromium.launch, browser.newContext, context.newPage;
\* a failure of the launch leaves no browser, a later failure leaves one
InitializeBrowser ==
    /\ pc = "start"
    /\ \E step \in {"none", "launch", "context"} :
          /\ browser' = IF step = "launch" THEN "none" ELSE "open"
          /\ pc' = IF step = "none" THEN "mkdir" ELSE "done"
          /\ outcome' = IF step = "none" THEN outcome ELSE "rejected"
    /\ UNCHANGED <<run, config, pendingError, queue, visited, currentUrl, pageUrl,
                   result, regexes, tree, treeAtStart, trace>>

\* await fs.mkdir(params.baseOutputDir, {recursive: true}), then the visited
\* set and the queue holding the seed; a rejection of mkdir leaves crawl here
MkdirOutputRoot ==
    /\ pc = "mkdir"
    /\ IF MkdirFails(files, OutputRoot)
       THEN /\ pc' = "done"
            /\ outcome' = "rejected"
            /\ UNCHANGED <<dirs, queue, visited>>
       ELSE /\ pc' = "loop"
            /\ dirs' = dirs \cup Prefixes(OutputRoot)
            /\ queue' = <<Seed>>
            /\ visited' = {}
            /\ UNCHANGED outcome
    /\ UNCHANGED <<run, config, browser, pendingError, currentUrl, pageUrl, result,
                   regexes, files, treeAtStart, trace>>


\* faulty variant: the visited set is not consulted at dequeue time
AlreadyVisitedNever(url, visitedSet) == FALSE

\* visited.has(currentUrl)
AlreadyVisited(url, visitedSet) == url \in visitedSet

\* faulty variant: the dequeued URL is not recorded
VisitedAddNothing(visitedSet, url) == visitedSet

\* visited.add(currentUrl)
VisitedAdd(visitedSet, url) == visitedSet \cup {url}

\* faulty variant: every status counts as a success
IsSuccessAlways(status) == TRUE

\* result?.response.status === DEFAULT_HTTP_SUCCESS_STATUS_CODES
IsSuccess(status) == status = DEFAULT_HTTP_SUCCESS_STATUS_CODES

\* faulty variant: the catch block throws the error on
CatchHandlerRethrows == [pc |-> "finally", rethrow |-> TRUE]

\* the catch block of the loop body: it logs, and control continues at interval
CatchHandler == [pc |-> "interval", rethrow |-> FALSE]

\* faulty variant: a binary response goes on to link discovery
AfterBinarySaveFallsThrough == "links"

\* if (result.response.binary) continue;  -- the next iteration of the while loop
AfterBinarySave == "loop"

\* faulty variant: the loop waits on an empty queue instead of ending
LoopExitsNever(q) == FALSE

\* while (queue.length > 0) is false
LoopExits(q) == Len(q) = 0

\* while (queue.length > 0) is false: the finally block is next
LoopEnd ==
    /\ pc = "loop"
    /\ LoopExits(queue)
    /\ pc' = "finally"
    /\ UNCHANGED <<run, config, browser, outcome, pendingError, queue, visited,
                   currentUrl, pageUrl, result, regexes, tree, treeAtStart, trace>>

\* queue.shift(), the visited test (continue) and visited.add
Dequeue ==
    /\ pc = "loop"
    /\ queue # <<>>
    /\ queue' = Tail(queue)
    /\ currentUrl' = Head(queue)
    /\ IF AlreadyVisited(Head(queue), visited)
       THEN /\ pc' = "loop"
            /\ Log("idle", Head(queue), <<>>)
            /\ UNCHANGED visited
       ELSE /\ pc' = "request"
            /\ visited' = VisitedAdd(visited, Head(queue))
            /\ UNCHANGED trace
    /\ UNCHANGED <<run, config, browser, outcome, pendingError, pageUrl, result,
                   regexes, tree, treeAtStart>>

\* const result = await request(page, currentUrl, params) and the status test;
\* a throw is caught by the loop body's catch
Request ==
    /\ pc = "request"
    /\ LET r == request(currentUrl, currentUrl \in down, fnLastIndex, ctLastIndex)
       IN  /\ fnLastIndex' = r.fnLastIndex
           /\ ctLastIndex' = r.ctLastIndex
           /\ result' = r.response
           /\ IF r.threw
              THEN /\ trace' = trace \o <<Event("request", currentUrl, <<>>),
                                          Event("requestThrew", currentUrl, queue)>>
                   /\ pc' = CatchHandler.pc
                   /\ pendingError' = CatchHandler.rethrow
                   /\ UNCHANGED pageUrl
              ELSE /\ Log("request", currentUrl, <<>>)
                   /\ pageUrl' = PageUrlAfterGoto(currentUrl)
                   /\ pc' = IF IsSuccess(r.response.status) THEN "save" ELSE "interval"
                   /\ UNCHANGED pendingError
    /\ UNCHANGED <<run, config, browser, outcome, queue, visited, currentUrl,
                   ignoreLastIndex, tree, treeAtStart>>

\* const url = decodeURIComponent(removePortFromUrl(page.url() || EMPTY));
\* await savePageContent(result.response.body, params.baseOutputDir, url, ...);
\* if (result.response.binary) continue;
SavePageContent ==
    /\ pc = "save"
    /\ LET decoded == decodeURIComponent(removePortFromUrl(pageUrl))
           saved   == savePageContent(result.body, BaseOutputDir, decoded.value,
                                      overrides, files, dirs)
       IN  IF ~decoded.ok
           THEN /\ Log("decodeThrew", currentUrl, <<>>)
                /\ pc' = CatchHandler.pc
                /\ pendingError' = CatchHandler.rethrow
                /\ UNCHANGED tree
           ELSE /\ Log(saved.outcome, currentUrl, saved.path)
                /\ files' = saved.files
                /\ dirs' = saved.dirs
                /\ IF saved.outcome = "persistThrew"
                   THEN /\ pc' = CatchHandler.pc
                        /\ pendingError' = CatchHandler.rethrow
                   ELSE /\ pc' = IF result.binary THEN AfterBinarySave ELSE "links"
                        /\ UNCHANGED pendingError
    /\ UNCHANGED <<run, config, browser, outcome, queue, visited, currentUrl, pageUrl,
                   result, regexes, treeAtStart>>

\* extractLinks, filterSameDomainLinks(page.url(), ...), enqueueNewLinks
DiscoverLinks ==
    /\ pc = "links"
    /\ LET extractedLinks == extractLinks(result.text)
           filtered == filterSameDomainLinks(pageUrl, extractedLinks, DomainBase,
                                             ignoreLastIndex)
       IN  /\ queue' = enqueueNewLinks(filtered.links, visited, queue)
           /\ ignoreLastIndex' = filtered.lastIndex
           /\ Log("links", currentUrl, filtered.links)
    /\ pc' = "interval"
    /\ UNCHANGED <<run, config, browser, outcome, pendingError, visited, currentUrl,
                   pageUrl, result, fnLastIndex, ctLastIndex, tree, treeAtStart>>

\* await interval(params.intervalBetweenRequests, params.intervalFactor)
Interval ==
    /\ pc = "interval"
    /\ Log("pace", currentUrl, <<>>)
    /\ pc' = "loop"
    /\ UNCHANGED <<run, config, browser, outcome, pendingError, queue, visited,
                   currentUrl, pageUrl, result, regexes, tree, treeAtStart>>

\* finally { await browser.close(); } and the settling of crawl's promise
Finally ==
    /\ pc = "finally"
    /\ browser' = "closed"
    /\ outcome' = IF pendingError THEN "rejected" ELSE "returned"
    /\ pc' = "done"
    /\ UNCHANGED <<run, config, pendingError, queue, visited, currentUrl, pageUrl,
                   result, regexes, tree, treeAtStart, trace>>

\* crawl is called again with the same params on the tree the last run left,
\* in the same process (the module's regular expressions keep their
\* lastIndex) or in a new one
Rerun ==
    /\ pc = "done"
    /\ outcome = "returned"
    /\ run < MaxRuns
    /\ run' = run + 1
    /\ pc' = "start"
    /\ browser' = "none"
    /\ outcome' = "running"
    /\ \E sameProcess \in BOOLEAN :
          /\ fnLastIndex' = IF sameProcess THEN fnLastIndex ELSE 0
          /\ ctLastIndex' = IF sameProcess THEN ctLastIndex ELSE 0
          /\ ignoreLastIndex' = IF sameProcess THEN ignoreLastIndex ELSE 0
    /\ queue' = <<>>
    /\ visited' = {}
    /\ currentUrl' = EMPTY
    /\ pageUrl' = AboutBlankUrl
    /\ result' = NoResult(EMPTY)
    /\ treeAtStart' = [files |-> files, dirs |-> dirs]
    /\ trace' = <<>>
    /\ UNCHANGED <<config, pendingError, tree>>

Next ==
    \/ InitializeBrowser
    \/ MkdirOutputRoot
    \/ LoopEnd
    \/ Dequeue
    \/ Request
    \/ SavePageContent
    \/ DiscoverLinks
    \/ Interval
    \/ Finally
    \/ Rerun

Spec == Init /\ [][Next]_vars

\* ENABLED <<Next>>_vars, from the guards of the actions: every position
\* but the last has a step, the loop head has one when the loop ends or
\* dequeues, and a settled crawl has one when it is called again
NextEnabled ==
    \/ pc \in {"start", "mkdir", "request", "save", "links", "interval", "finally"}
    \/ pc = "loop" /\ (LoopExits(queue) \/ queue # <<>>)
    \/ pc = "done" /\ outcome = "returned" /\ run < MaxRuns

\* every await of crawl settles, so a step that can be taken is taken:
\* WF_vars(Next), with ENABLED <<Next>>_vars written out as NextEnabled
FairSpec == Spec /\ ([]<>(~NextEnabled) \/ []<><<Next>>_vars)


\* ------------------------------------------------------------------------
\* Properties
\* ------------------------------------------------------------------------

EventsOf(ev) == {i \in DOMAIN trace : trace[i].ev = ev}

Last(seq) == seq[Len(seq)]

\* the path savePageContent derives from the page's URL
StoragePath ==
    getFileFullPath(BaseOutputDir, decodeURIComponent(removePortFromUrl(pageUrl)).value)

HostnameHoldsBase(url) ==
    LET h == ParseHostname(url)
    IN  h.ok /\ Includes(h.hostname, DomainBase)

\* C1: at-most-once fetch.  In a run, request() is invoked at most once for
\* every URL, however often the URL was discovered or queued and whether or
\* not its fetch succeeded.
C1_AtMostOnceFetch ==
    \A i, j \in EventsOf("request") : trace[i].url = trace[j].url => i = j

\* a URL whose only fetch threw was dequeued again later and skipped
C1_Witness ==
    \E i \in EventsOf("requestThrew") : \E j \in EventsOf("idle") :
        /\ trace[j].url = trace[i].url
        /\ j > i
        /\ Cardinality({k \in EventsOf("request") : trace[k].url = trace[i].url}) = 1

\* C2: guaranteed session release.  Whenever crawl has settled after the
\* browser was launched, browser.close() has been executed.
C2_SessionReleased ==
    (pc = "done" /\ browser # "none") => browser = "closed"

\* C3: isolation of a fetch failure.  A throw of request() is caught: it
\* never makes crawl reject, and once crawl has returned every URL that was
\* queued at the moment of the throw has been dequeued afterwards (fetched, or
\* skipped as already visited).
C3_FetchFailureIsolated ==
    /\ (EventsOf("requestThrew") # {}) => (~pendingError /\ outcome # "rejected")
    /\ (pc = "done" /\ EventsOf("requestThrew") # {}) => outcome = "returned"
    /\ (pc = "done") =>
           \A i \in EventsOf("requestThrew") : \A k \in DOMAIN trace[i].data :
               \E j \in (i + 1)..Len(trace) :
                   /\ trace[j].ev \in {"request", "idle"}
                   /\ trace[j].url = trace[i].data[k]

\* crawl returned although a fetch threw while URLs were queued, and a URL
\* fetched after the throw was written to the archive
C3_Witness ==
    /\ pc = "done"
    /\ outcome = "returned"
    /\ \E i \in EventsOf("requestThrew") :
           /\ trace[i].data # <<>>
           /\ \E j \in EventsOf("wrote") :
                  j > i /\ \E k \in DOMAIN trace[i].data : trace[i].data[k] = trace[j].url

\* C4: a persistence failure is fatal.  When savePageContent throws, no
\* further URL is fetched and crawl rejects.
C4_PersistenceFailureFatal ==
    /\ \A i \in EventsOf("persistThrew") : \A j \in EventsOf("request") : j < i
    /\ (pc = "done" /\ EventsOf("persistThrew") # {}) => outcome = "rejected"

\* C5: pacing on every outcome.  Whenever the loop is about to dequeue, one
\* interval() has been executed for every URL fetched so far.
C5_PacedOnEveryOutcome ==
    pc = "loop" => Cardinality(EventsOf("pace")) = Cardinality(EventsOf("request"))

C7_FetchStrategyDecision ==
    result.status # 0 =>
        result.binary = (/\ ~HTML_FILENAME_REGEX(result.url, 0).matched
                         /\ ~HTML_CONTENT_TYPE_REGEX(result.contentType, 0).matched)

\* C8: skip-if-exists.  With overwrite off, no step changes or removes a file
\* of the output tree, and savePageContent on a URL whose file exists writes
\* nothing and does not throw.
C8_SkipIfExists ==
    [][ ~overrides =>
           /\ \A p \in DOMAIN files : p \in DOMAIN files' /\ files'[p] = files[p]
           /\ (pc = "save" /\ StoragePath \in DOMAIN files) =>
                  /\ files' = files
                  /\ Last(trace').ev = "skipped"
                  /\ pc' \in {"links", "loop"} ]_vars

\* with overwrite off a page was fetched whose file held stale bytes: the
\* save was skipped and the stale bytes are still there
C8_Witness ==
    /\ ~overrides
    /\ \E i \in EventsOf("skipped") :
           /\ trace[i].data \in DOMAIN files
           /\ files[trace[i].data] = StaleBytes
           /\ Serve(trace[i].url).body # StaleBytes

\* C9: idempotent output.  A second run with overwrite off leaves the output
\* tree as the first run left it, and returns.
C9_IdempotentOutput ==
    (run = 2 /\ ~overrides) =>
        /\ files = treeAtStart.files
        /\ dirs = treeAtStart.dirs
        /\ (pc = "done" /\ browser = "closed") => outcome = "returned"

\* C10: domain isolation.  Every URL in the work queue and every URL fetched,
\* other than the seed, parses as a URL whose host name holds the base domain.
C10_DomainIsolation ==
    /\ \A i \in DOMAIN queue : queue[i] = Seed \/ HostnameHoldsBase(queue[i])
    /\ \A i \in EventsOf("request") :
           trace[i].url = Seed \/ HostnameHoldsBase(trace[i].url)

\* the links of a page that names a foreign host were filtered and enqueued:
\* the sub-domain link is queued, the foreign one is not
C10_Witness ==
    /\ pc = "interval"
    /\ \E k \in DOMAIN extractLinks(result.text) :
           /\ ParseHostname(extractLinks(result.text)[k]).ok
           /\ ~HostnameHoldsBase(extractLinks(result.text)[k])
    /\ \E i \in DOMAIN queue : queue[i] = UrlSub
    /\ \A i \in DOMAIN queue : queue[i] # UrlOther
    /\ trace # <<>> /\ Last(trace).ev = "links"


\* the events of savePageContent calls: the URL was handed to persistence
PersistEvents == EventsOf("wrote") \cup EventsOf("skipped") \cup EventsOf("persistThrew")

IsProperPrefix(p, q) == Len(p) < Len(q) /\ SubSeq(q, 1, Len(p)) = p

\* C11: no path collision.  Within a run two distinct URLs handed to
\* savePageContent never have the same file path, and the file path of one
\* is never a directory on the file path of another.
C11_NoPathCollision ==
    \A i, j \in PersistEvents :
        trace[i].url # trace[j].url =>
            /\ trace[i].data # trace[j].data
            /\ ~IsProperPrefix(trace[i].data, trace[j].data)


\* C12: output confinement.  Every file written and every directory created
\* by a run lies under baseOutputDir.
C12_OutputConfinement ==
    /\ \A p \in DOMAIN files :
           p \in DOMAIN treeAtStart.files \/ IsProperPrefix(OutputRoot, p)
    /\ \A d \in dirs :
           d \in treeAtStart.dirs \/ d = OutputRoot \/ IsProperPrefix(OutputRoot, d)


\* C13: crawl completeness.  When crawl has returned, the seed and every URL
\* that link discovery admitted during the run are in the visited set, and a
\* fetch was attempted for every visited URL.
C13_CrawlCompleteness ==
    (pc = "done" /\ outcome = "returned") =>
        /\ Seed \in visited
        /\ \A i \in EventsOf("links") : \A k \in DOMAIN trace[i].data :
               trace[i].data[k] \in visited
        /\ \A u \in visited : \E j \in EventsOf("request") : trace[j].url = u

\* crawl has returned after link discovery admitted, on a page other than
\* the seed, a URL that no earlier page had named
C13_Witness ==
    /\ pc = "done"
    /\ outcome = "returned"
    /\ \E i \in EventsOf("links") :
           /\ trace[i].url # Seed
           /\ \E k \in DOMAIN trace[i].data :
                  /\ trace[i].data[k] \in visited
                  /\ \A j \in EventsOf("links") : \A m \in DOMAIN trace[j].data :
                         trace[j].data[m] = trace[i].data[k] => j >= i


\* C14: visited set discipline.  Within a run the visited set only grows; it
\* changes only at dequeue time, by the dequeued URL, before the fetch; so
\* the URL of every fetch, whatever its outcome, is in the visited set from
\* the fetch on.
C14_VisitedSetDiscipline ==
    /\ [](pc \in {"request", "save", "links", "interval"} => currentUrl \in visited)
    /\ [](\A i \in DOMAIN trace : trace[i].url \in visited)
    /\ [][ run' = run =>
              /\ visited \subseteq visited'
              /\ visited' # visited =>
                     /\ pc = "loop" /\ pc' = "request"
                     /\ Head(queue) \notin visited
                     /\ visited' = visited \cup {Head(queue)}
                     /\ trace' = trace ]_vars

\* the loop is back at its head after a fetch that threw and a fetch that
\* was answered with another status than 200: both URLs are visited
C14_Witness ==
    /\ pc = "loop"
    /\ \E i \in EventsOf("requestThrew") : trace[i].url \in visited
    /\ \E i \in EventsOf("request") :
           /\ trace[i].url \notin down
           /\ Serve(trace[i].url).status # DEFAULT_HTTP_SUCCESS_STATUS_CODES
           /\ trace[i].url \in visited
           /\ \E j \in EventsOf("pace") : j > i /\ trace[j].url = trace[i].url


\* C15: no re-enqueue of visited URLs.  Every step that makes the work queue
\* longer appends to it, and no URL it appends is in the visited set.
C15_NoReEnqueueOfVisited ==
    [][ Len(queue') > Len(queue) =>
           /\ SubSeq(queue', 1, Len(queue)) = queue
           /\ \A k \in (Len(queue) + 1)..Len(queue') : queue'[k] \notin visited ]_vars

\* link discovery has just admitted a link to a visited URL, on a page
\* fetched while other URLs wait in the queue: the link is not queued
C15_Witness ==
    /\ pc = "interval"
    /\ trace # <<>>
    /\ Last(trace).ev = "links"
    /\ queue # <<>>
    /\ \E k \in DOMAIN Last(trace).data :
           /\ Last(trace).data[k] \in visited
           /\ \A i \in DOMAIN queue : queue[i] # Last(trace).data[k]


\* C16: a non-success status is inert.  When request() returns another
\* status than 200, the step goes on to the pacing delay; it and the delay
\* leave the output tree, the work queue and the visited set as they were,
\* and nothing is persisted or extracted for that response.
C16_NonSuccessInert ==
    /\ [](pc \in {"save", "links"} => result.status = DEFAULT_HTTP_SUCCESS_STATUS_CODES)
    /\ [][ /\ (/\ pc = "request"
               /\ Last(trace').ev = "request"
               /\ result'.status # DEFAULT_HTTP_SUCCESS_STATUS_CODES) =>
                  /\ pc' = "interval"
                  /\ <<files, dirs, queue, visited>>' = <<files, dirs, queue, visited>>
           /\ pc = "interval" =>
                  /\ pc' = "loop"
                  /\ Last(trace').ev = "pace"
                  /\ <<files, dirs, queue, visited>>' = <<files, dirs, queue, visited>> ]_vars

\* the loop is back at its head after a 404 response that holds a link: the
\* last event for its URL is the fetch, then the pacing delay, and the link
\* is neither queued nor visited
C16_Witness ==
    /\ pc = "loop"
    /\ result.status # DEFAULT_HTTP_SUCCESS_STATUS_CODES
    /\ result.status # 0
    /\ Len(trace) >= 2
    /\ Last(trace) = Event("pace", result.url, <<>>)
    /\ trace[Len(trace) - 1] = Event("request", result.url, <<>>)
    /\ \E k \in DOMAIN extractLinks(result.text) :
           LET link == ResolveLink(result.url, extractLinks(result.text)[k])
           IN  /\ SameDomain(link, DomainBase)
               /\ link \notin visited
               /\ \A i \in DOMAIN queue : queue[i] # link


\* C17: blank-page rejection.  No URL in the work queue matches the
\* blank-page sentinel pattern (anything followed by "/about:blank" at the
\* end), and no such URL is fetched.
C17_BlankPageRejection ==
    /\ \A i \in DOMAIN queue : ~IGNORE_URL_REGEX(queue[i], 0).matched
    /\ \A i \in EventsOf("request") : ~IGNORE_URL_REGEX(trace[i].url, 0).matched


\* the part of a URL after its first "://" (the whole of it without one)
AfterScheme(url) ==
    LET at == {i \in 1..Len(url) : HasAt(url, i, SchemeSep)}
    IN  IF at = {} THEN url ELSE SubSeq(url, SetMin(at) + Len(SchemeSep), Len(url))

\* C18: separator collapsing.  No URL in the work queue holds two path
\* separators in a row after its "scheme://".
C18_SeparatorCollapsing ==
    \A i \in DOMAIN queue : ~Includes(AfterScheme(queue[i]), <<"/", "/">>)


\* Relative-URL resolution as RFC 3986 section 5.2 defines it, for a
\* reference without a scheme: the yardstick of C19, not code of the program

\* 5.2.4, remove_dot_segments, on the segments of a path
RECURSIVE RemoveDotSegments(_, _)
RemoveDotSegments(segs, acc) ==
    IF segs = <<>> THEN acc
    ELSE LET h    == Head(segs)
             last == Len(segs) = 1
             pop  == IF acc = <<>> THEN acc ELSE SubSeq(acc, 1, Len(acc) - 1)
         IN  IF h = <<".">>
             THEN RemoveDotSegments(Tail(segs), IF last THEN Append(acc, EMPTY) ELSE acc)
             ELSE IF h = <<".", ".">>
                  THEN RemoveDotSegments(Tail(segs), IF last THEN Append(pop, EMPTY) ELSE pop)
                  ELSE RemoveDotSegments(Tail(segs), Append(acc, h))

\* an absolute path ("/..." or empty) without its dot segments
CleanPath(path) ==
    IF path = EMPTY THEN Slash
    ELSE Slash \o Join(RemoveDotSegments(Split(Tail(path), Slash), <<>>), Slash)

\* the index of the first "?" or "#" of s, Len(s) + 1 without one
SuffixStart(s) == SetMin({i \in 1..Len(s) : s[i] \in {"?", "#"}} \cup {Len(s) + 1})

StandardResolve(baseUrl, ref) ==
    LET scheme    == SubSeq(baseUrl, 1, Len(baseUrl) - Len(AfterScheme(baseUrl)) - Len(SchemeSep))
        rest      == SubSeq(AfterScheme(baseUrl), 1, SuffixStart(AfterScheme(baseUrl)) - 1)
        slashes   == {i \in 1..Len(rest) : rest[i] = "/"}
        authority == IF slashes = {} THEN rest ELSE SubSeq(rest, 1, SetMin(slashes) - 1)
        basePath  == SubSeq(rest, Len(authority) + 1, Len(rest))
        baseDir   == IF slashes = {} THEN Slash
                     ELSE SubSeq(rest, Len(authority) + 1, SetMax(slashes))
        refPath   == SubSeq(ref, 1, SuffixStart(ref) - 1)
        suffix    == SubSeq(ref, SuffixStart(ref), Len(ref))
        origin    == scheme \o SchemeSep \o authority
    IN  IF ref = EMPTY THEN baseUrl
        ELSE IF refPath = EMPTY THEN origin \o basePath \o suffix
        ELSE IF StartsWith(refPath, <<"/", "/">>) THEN scheme \o <<":">> \o ref
        ELSE IF StartsWith(refPath, Slash) THEN origin \o CleanPath(refPath) \o suffix
        ELSE origin \o CleanPath(baseDir \o refPath) \o suffix


\* C19: relative link resolution.  For every link of a fetched page that
\* carries no scheme, the candidate URL the code builds is the standard
\* resolution of the link against the page's URL.
C19_RelativeLinkResolution ==
    pc = "links" =>
        \A k \in DOMAIN extractLinks(result.text) :
            LET link == Trim(extractLinks(result.text)[k])
            IN  (~HasHttpScheme(link) /\ ~Includes(link, <<":">>)) =>
                    ResolveLink(pageUrl, link) = StandardResolve(pageUrl, link)


\* C20: termination.  When every call settles, a crawl that has entered its
\* loop reaches an empty work queue, closes the browser and returns.
C20_Termination ==
    (pc = "loop") ~>
        (pc = "done" /\ queue = <<>> /\ browser = "closed" /\ outcome = "returned")

\* crawl has returned from a site whose links form a cycle: a page fetched
\* after the seed links back to the seed
C20_Witness ==
    /\ pc = "done"
    /\ outcome = "returned"
    /\ browser = "closed"
    /\ queue = <<>>
    /\ \E i \in EventsOf("links") :
           /\ trace[i].url # Seed
           /\ \E k \in DOMAIN trace[i].data : trace[i].data[k] = Seed


RECURSIVE Flatten(_)
Flatten(seqs) == IF seqs = <<>> THEN <<>> ELSE Head(seqs) \o Flatten(Tail(seqs))

\* the URLs of the run in the order they were offered to the queue: the
\* seed, then the admitted links of every link discovery.  A link left out
\* of the queue because it was visited had entered the queue earlier, so
\* the first occurrence of a URL here is its first insertion.
DiscoveryOrder ==
    <<Seed>> \o Flatten([k \in 1..Len(trace) |->
                            IF trace[k].ev = "links" THEN trace[k].data ELSE <<>>])

\* for every fetched URL, the place of its first insertion
FirstInsertion ==
    LET order == DiscoveryOrder
    IN  [u \in {trace[i].url : i \in EventsOf("request")} |->
            SetMin({k \in DOMAIN order : order[k] = u})]

\* C21: breadth-first order.  The queue is FIFO: a step takes its head or
\* appends at its tail, and URLs are fetched in the order of their first
\* insertion into the queue.
C21_BreadthFirstOrder ==
    /\ [](LET first == FirstInsertion
          IN  \A i, j \in EventsOf("request") :
                  i < j => first[trace[i].url] < first[trace[j].url])
    /\ [][ run' = run =>
              \/ queue' = queue
              \/ queue # <<>> /\ queue' = Tail(queue) /\ currentUrl' = Head(queue)
              \/ Len(queue') > Len(queue) /\ SubSeq(queue', 1, Len(queue)) = queue ]_vars

\* crawl has returned from a run in which a page of the first level named a
\* new URL while URLs of the first level were still queued: those were
\* fetched first
C21_Witness ==
    /\ pc = "done"
    /\ outcome = "returned"
    /\ \E i \in EventsOf("links") : \E j, m \in EventsOf("request") :
           /\ trace[i].url # Seed
           /\ i < j /\ j < m
           /\ \E k \in EventsOf("links") :
                  k < i /\ \E n \in DOMAIN trace[k].data : trace[k].data[n] = trace[j].url
           /\ \E n \in DOMAIN trace[i].data : trace[i].data[n] = trace[m].url
           /\ \A k \in EventsOf("links") :
                  k < i => \A n \in DOMAIN trace[k].data : trace[k].data[n] # trace[m].url


\* C22: idle step.  When the head of the queue is in the visited set, the
\* step removes that head and does nothing else: no fetch, no persistence,
\* no enqueue, the visited set and the output tree unchanged, and the loop
\* is at its head again.
C22_IdleStep ==
    [][ (pc = "loop" /\ queue # <<>> /\ Head(queue) \in visited) =>
           /\ queue' = Tail(queue)
           /\ pc' = "loop"
           /\ trace' = Append(trace, Event("idle", Head(queue), <<>>))
           /\ UNCHANGED <<visited, files, dirs, result, pageUrl, regexes>> ]_vars

\* one page named a URL twice, so the URL was queued twice before its first
\* dequeue; it was fetched once, and its second dequeue has just been an
\* idle step
C22_Witness ==
    /\ pc = "loop"
    /\ trace # <<>>
    /\ Last(trace).ev = "idle"
    /\ Last(trace).url \in visited
    /\ Cardinality({i \in EventsOf("request") : trace[i].url = Last(trace).url}) = 1
    /\ \E i \in EventsOf("links") : \E n, m \in DOMAIN trace[i].data :
           /\ n < m
           /\ trace[i].data[n] = Last(trace).url
           /\ trace[i].data[m] = Last(trace).url
           /\ \A j \in EventsOf("request") : trace[j].url = Last(trace).url => j > i


\* the candidate URLs filterSameDomainLinks builds from the links of the
\* page whose links are about to be discovered
Candidates ==
    [k \in DOMAIN extractLinks(result.text) |->
        ResolveLink(pageUrl, Trim(extractLinks(result.text)[k]))]

\* C23: malformed links are not fatal.  Link discovery never throws; a
\* candidate that does not parse as a URL is not enqueued, every candidate
\* of the same page that parses, holds the base domain, is no blank-page
\* sentinel and is not visited is enqueued, and no queue entry is unparsable.
C23_MalformedLinksNonFatal ==
    /\ [](\A i \in DOMAIN queue : ParseHostname(queue[i]).ok)
    /\ [][ pc = "links" =>
              /\ pc' = "interval"
              /\ pendingError' = FALSE
              /\ Last(trace').ev = "links"
              /\ \A k \in DOMAIN Candidates :
                     LET c      == Candidates[k]
                         queued == \E i \in (Len(queue) + 1)..Len(queue') : queue'[i] = c
                     IN  /\ ~ParseHostname(c).ok => ~queued
                         /\ (/\ HostnameHoldsBase(c)
                             /\ ~IGNORE_URL_REGEX(c, 0).matched
                             /\ c \notin visited) => queued ]_vars

\* link discovery has just handled a page that names an unparsable link
\* between two good ones: both good ones are queued, the run goes on
C23_Witness ==
    /\ pc = "interval"
    /\ outcome = "running"
    /\ ~pendingError
    /\ \E k1, k2, k3 \in DOMAIN Candidates :
           /\ k1 < k2 /\ k2 < k3
           /\ ~ParseHostname(Candidates[k2]).ok
           /\ Includes(Candidates[k2], DomainBase)
           /\ \A i \in DOMAIN queue : queue[i] # Candidates[k2]
           /\ \E i \in DOMAIN queue : queue[i] = Candidates[k1]
           /\ \E i \in DOMAIN queue : queue[i] = Candidates[k3]
    /\ trace # <<>> /\ Last(trace).ev = "links"

====
